---- MODULE Spec2Model ----
(***************************************************************************)
(* Model of mohfw_bfs_crawler.py: the breadth-first crawl loop of          *)
(* MoHFWCrawler (frontier queue + visited set), the retrying fetcher       *)
(* get_response, the content-type dispatch and the PDF archiver save_pdf.  *)
(* URLs are character strings; the urllib.parse / os.path / str functions  *)
(* the crawler calls are modelled by what they compute on those strings.   *)
(***************************************************************************)
EXTENDS Integers, Sequences, FiniteSets, TLC

(***************************************************************************)
(* Strings                                                                 *)
(***************************************************************************)

\* s[i:j] of Python for 1-based inclusive bounds; "" when the range is empty
Sub(s, i, j) == IF i > j THEN "" ELSE SubSeq(s, i, j)

Ch(s, i) == SubSeq(s, i, i)

\* s[i:] (1-based)
From(s, i) == Sub(s, i, Len(s))

\* str.startswith
StartsWith(s, p) == Len(s) >= Len(p) /\ Sub(s, 1, Len(p)) = p

\* str.endswith
EndsWith(s, suf) ==
    Len(s) >= Len(suf) /\ Sub(s, Len(s) - Len(suf) + 1, Len(s)) = suf

RECURSIVE FindFrom(_, _, _)
\* least index i >= from with s[i] in the set cs, or 0 (str.find over a set)
FindFrom(s, cs, from) ==
    IF from > Len(s) THEN 0
    ELSE IF Ch(s, from) \in cs THEN from
    ELSE FindFrom(s, cs, from + 1)

Find(s, cs) == FindFrom(s, cs, 1)

RECURSIVE RFindFrom(_, _, _)
\* greatest index i <= from with s[i] in cs, or 0 (str.rfind)
RFindFrom(s, cs, from) ==
    IF from < 1 THEN 0
    ELSE IF Ch(s, from) \in cs THEN from
    ELSE RFindFrom(s, cs, from - 1)

RFind(s, cs) == RFindFrom(s, cs, Len(s))

Upper == <<"A", "B", "C", "D", "E", "F", "G", "H", "I", "J", "K", "L", "M",
           "N", "O", "P", "Q", "R", "S", "T", "U", "V", "W", "X", "Y", "Z">>

Lowers == <<"a", "b", "c", "d", "e", "f", "g", "h", "i", "j", "k", "l", "m",
            "n", "o", "p", "q", "r", "s", "t", "u", "v", "w", "x", "y", "z">>

Digits == {"0", "1", "2", "3", "4", "5", "6", "7", "8", "9"}

Range(f) == {f[i] : i \in DOMAIN f}

LowerCh(c) ==
    IF c \in Range(Upper)
    THEN Lowers[CHOOSE i \in DOMAIN Upper : Upper[i] = c]
    ELSE c

RECURSIVE Lower(_)
\* str.lower
Lower(s) == IF s = "" THEN "" ELSE LowerCh(Head(s)) \o Lower(Tail(s))

\* str.isalnum for one character
IsAlnum(c) == c \in Range(Upper) \cup Range(Lowers) \cup Digits

RECURSIVE Split(_, _)
\* str.split(sep) for a one-character separator: a sequence of strings
Split(s, sep) ==
    LET i == Find(s, {sep})
    IN  IF i = 0 THEN <<s>>
        ELSE <<Sub(s, 1, i - 1)>> \o Split(From(s, i + 1), sep)

RECURSIVE Join(_, _)
\* sep.join(parts)
Join(parts, sep) ==
    IF Len(parts) = 0 THEN ""
    ELSE IF Len(parts) = 1 THEN parts[1]
    ELSE parts[1] \o sep \o Join(Tail(parts), sep)

(***************************************************************************)
(* urllib.parse                                                            *)
(***************************************************************************)

SchemeChars == Range(Upper) \cup Range(Lowers) \cup Digits \cup {"+", "-", "."}

RECURSIVE AllIn(_, _)
AllIn(s, cs) == s = "" \/ (Head(s) \in cs /\ AllIn(Tail(s), cs))

\* the schemes of urllib.parse.uses_relative / uses_netloc that occur here
UsesRelative == {"", "http", "https", "ftp", "file"}

\* the part of s before the first character c (all of s without one)
BeforeAt(s, i) == IF i = 0 THEN s ELSE Sub(s, 1, i - 1)

Before(s, c) == BeforeAt(s, Find(s, {c}))

\* the part of s after the first character c ("" without one)
AfterAt(s, i) == IF i = 0 THEN "" ELSE From(s, i + 1)

After(s, c) == AfterAt(s, Find(s, {c}))

\* urlsplit: whether the text before the first ":" (at index c) is a scheme
HasScheme(ref, c) ==
    /\ c > 1
    /\ AllIn(Sub(ref, 1, c - 1), SchemeChars)
    /\ IsAlnum(Ch(ref, 1))
    /\ Ch(ref, 1) \notin Digits

\* urlsplit: the scheme of url (lower-cased), default without one
SchemeOf(ref, default) ==
    IF HasScheme(ref, Find(ref, {":"}))
    THEN Lower(Before(ref, ":")) ELSE default

\* urlsplit: what follows the scheme and its colon
AfterScheme(ref) ==
    IF HasScheme(ref, Find(ref, {":"})) THEN After(ref, ":") ELSE ref

\* urlsplit: the netloc runs from "//" to the first of "/", "?", "#"
NetlocCut(rest, e) == IF e = 0 THEN From(rest, 3) ELSE Sub(rest, 3, e - 1)

NetlocOf(rest) ==
    IF StartsWith(rest, "//")
    THEN NetlocCut(rest, FindFrom(rest, {"/", "?", "#"}, 3)) ELSE ""

AfterNetlocCut(rest, e) == IF e = 0 THEN "" ELSE From(rest, e)

AfterNetloc(rest) ==
    IF StartsWith(rest, "//")
    THEN AfterNetlocCut(rest, FindFrom(rest, {"/", "?", "#"}, 3)) ELSE rest

\* urlsplit: fragment after the first "#", query after the first "?"
ParsePath(scheme, netloc, r) ==
    [scheme |-> scheme, netloc |-> netloc,
     path |-> Before(Before(r, "#"), "?"),
     query |-> After(Before(r, "#"), "?"),
     fragment |-> After(r, "#")]

ParseRest(scheme, rest) == ParsePath(scheme, NetlocOf(rest), AfterNetloc(rest))

\* urllib.parse.urlparse(url, scheme=default): the components of url
\* (the ;params part of a path is left inside the path)
urlparse(ref, default) == ParseRest(SchemeOf(ref, default), AfterScheme(ref))

\* urlparse raises ValueError("Invalid IPv6 URL") on an unbalanced bracket
BracketsUnbalanced(n) == (Find(n, {"["}) # 0) # (Find(n, {"]"}) # 0)

ParseRaises(ref) == BracketsUnbalanced(urlparse(ref, "").netloc)

\* urlunparse: the fragment, the query and the scheme are put back when
\* they are not empty
WithFragment(s, fragment) ==
    IF fragment # "" THEN s \o "#" \o fragment ELSE s

WithQuery(s, query) == IF query # "" THEN s \o "?" \o query ELSE s

WithScheme(s, scheme) == IF scheme # "" THEN scheme \o ":" \o s ELSE s

WithNetloc(p) ==
    IF p.netloc # "" \/ (p.scheme \in UsesRelative /\ p.scheme # ""
                          /\ StartsWith(p.path, "//"))
    THEN "//" \o p.netloc
         \o (IF p.path # "" /\ ~StartsWith(p.path, "/") THEN "/" ELSE "")
         \o p.path
    ELSE p.path

\* urllib.parse.urlunparse / ParseResult.geturl
geturl(p) ==
    WithFragment(WithQuery(WithScheme(WithNetloc(p), p.scheme), p.query),
                 p.fragment)

RECURSIVE DropEmpty(_)
\* filter(None, segments)
DropEmpty(segs) ==
    IF Len(segs) = 0 THEN <<>>
    ELSE IF Head(segs) = "" THEN DropEmpty(Tail(segs))
    ELSE <<Head(segs)>> \o DropEmpty(Tail(segs))

RECURSIVE Resolve(_, _)
\* the dot-segment loop of urljoin: acc is resolved_path so far
Resolve(segs, acc) ==
    IF Len(segs) = 0 THEN acc
    ELSE IF Head(segs) = ".."
         THEN Resolve(Tail(segs),
                      IF Len(acc) = 0 THEN acc ELSE SubSeq(acc, 1, Len(acc) - 1))
    ELSE IF Head(segs) = "." THEN Resolve(Tail(segs), acc)
    ELSE Resolve(Tail(segs), Append(acc, Head(segs)))

\* urljoin: the base path without its last segment, unless that is empty
BaseParts(bp) ==
    IF bp[Len(bp)] # "" THEN SubSeq(bp, 1, Len(bp) - 1) ELSE bp

\* urljoin: segments[1:-1] = filter(None, segments[1:-1])
FilterMiddle(segs) ==
    IF Len(segs) < 3 THEN segs
    ELSE <<segs[1]>> \o DropEmpty(SubSeq(segs, 2, Len(segs) - 1))
         \o <<segs[Len(segs)]>>

Segments(bpath, path) ==
    IF StartsWith(path, "/") THEN Split(path, "/")
    ELSE FilterMiddle(BaseParts(Split(bpath, "/")) \o Split(path, "/"))

\* urljoin: a last segment "." or ".." leaves a trailing slash
ResolveAll(segs) ==
    IF segs[Len(segs)] \in {".", ".."}
    THEN Append(Resolve(segs, <<>>), "") ELSE Resolve(segs, <<>>)

OrRoot(joined) == IF joined = "" THEN "/" ELSE joined

MergedPath(bpath, path) ==
    OrRoot(Join(ResolveAll(Segments(bpath, path)), "/"))

\* urljoin once base (b) and url (u) are parsed
JoinParts(b, u, ref) ==
    IF u.scheme # b.scheme \/ u.scheme \notin UsesRelative THEN ref
    ELSE IF u.netloc # "" THEN geturl(u)
    ELSE IF u.path = ""
    THEN geturl([u EXCEPT !.netloc = b.netloc, !.path = b.path,
                          !.query = IF u.query = "" THEN b.query
                                    ELSE u.query])
    ELSE geturl([u EXCEPT !.netloc = b.netloc,
                          !.path = MergedPath(b.path, u.path)])

JoinParsed(b, ref) == JoinParts(b, urlparse(ref, b.scheme), ref)

\* urllib.parse.urljoin(base, url)
urljoin(base, ref) ==
    IF base = "" THEN ref
    ELSE IF ref = "" THEN base
    ELSE JoinParsed(urlparse(base, ""), ref)

\* a plausible slip: the fragment is left in place
RemoveFragment_Keep(ref) == ref

\* urlparse(full_url)._replace(fragment="").geturl()
RemoveFragment(ref) == geturl([urlparse(ref, "") EXCEPT !.fragment = ""])

\* os.path.basename
basename(path) == From(path, RFind(path, {"/"}) + 1)

RECURSIVE Contains(_, _)
\* the Python test  sub in s
Contains(s, sub) ==
    IF Len(s) < Len(sub) THEN FALSE
    ELSE StartsWith(s, sub) \/ Contains(Tail(s), sub)

RECURSIVE Digits2Nat(_, _)
Digits2Nat(s, acc) ==
    IF s = "" THEN acc
    ELSE Digits2Nat(Tail(s),
                    10 * acc + (CHOOSE d \in 0..9 : ToString(d) = Head(s)))

\* int(text) raises ValueError unless text is an optionally signed numeral
IntRaises(s) ==
    LET body == IF s # "" /\ Head(s) \in {"+", "-"} THEN Tail(s) ELSE s
    IN  body = "" \/ ~AllIn(body, Digits)

\* int(text) for a text on which it does not raise
int(s) ==
    IF Head(s) = "-" THEN 0 - Digits2Nat(Tail(s), 0)
    ELSE IF Head(s) = "+" THEN Digits2Nat(Tail(s), 0)
    ELSE Digits2Nat(s, 0)

\* round(content_length / 1024, 2), in hundredths of a KB (ties to even)
file_size_kb(n) ==
    LET q == (n * 100) \div 1024
        r == (n * 100) % 1024
    IN  IF r > 512 \/ (r = 512 /\ q % 2 = 1) THEN q + 1 ELSE q

(***************************************************************************)
(* The crawler's constants (MoHFWCrawler.__init__, get_response)           *)
(***************************************************************************)

seed_url == "https://mohfw.gov.in"

download_dir == "data_dump/General_Medicine/MoHFW"

pdf_min_size == 50 * 1024

\* a plausible slip: one retry too many
max_retries_Four == 3 + 1

max_retries == 3

(***************************************************************************)
(* The web that is crawled: for every URL the answers its server can give. *)
(* A header is <<>> when the response does not carry it and <<text>> when  *)
(* it does; hrefs are the href attributes of the anchors of the body, in   *)
(* document order.                                                         *)
(***************************************************************************)

\* number of pages of the generated chain of pages
MaxPages == 2

\* the values time.time() can return while a document is being named
Timestamps == {1700000000, 1700000001}

Html == <<"text/html; charset=UTF-8">>

Pdf == <<"application/pdf">>

Page(hrefs, ctypes, clens) ==
    [hrefs |-> hrefs, ctypes |-> ctypes, clens |-> clens]

\* a URL no web describes answers with an empty HTML page
DefaultPage == Page(<<>>, {Html}, {<<>>})

\* the scenario of three links on the seed page
WebScenario ==
    ("https://mohfw.gov.in" :>
        Page(<<"/report.pdf", "/tiny.pdf", "https://evil.example.com/a.pdf">>,
             {Html}, {<<>>}))
    @@ ("https://mohfw.gov.in/report.pdf" :> Page(<<>>, {Pdf}, {<<"100000">>}))
    @@ ("https://mohfw.gov.in/tiny.pdf" :> Page(<<>>, {Pdf}, {<<"1000">>}))
    @@ ("https://evil.example.com/a.pdf" :> Page(<<>>, {Pdf}, {<<"100000">>}))

\* fragments, repeated links, foreign hosts, unparsable and non-http hrefs
WebLinks ==
    ("https://mohfw.gov.in" :>
        Page(<<"/a#sec2", "#top", "/a", "https://evilmohfw.gov.in/x.pdf",
               "https://evil.example.com/a.pdf", "mailto:info@mohfw.gov.in",
               "//www.mohfw.gov.in/docs/", "http://[bad", "/never">>,
             {Html}, {<<>>}))
    @@ ("https://mohfw.gov.in/a" :>
        Page(<<"", "#x", "https://mohfw.gov.in", "/a", "b.PDF">>,
             {Html, <<"image/png">>}, {<<>>}))
    @@ ("https://www.mohfw.gov.in/docs/" :>
        Page(<<"../../etc/passwd.pdf", "/a#sec2">>, {Html, Pdf},
             {<<"60000">>}))
    @@ ("https://mohfw.gov.in/b.PDF" :>
        Page(<<>>, {Html, <<"application/octet-stream">>, <<>>},
             {<<"51200">>, <<"51199">>}))
    @@ ("https://evilmohfw.gov.in/x.pdf" :>
        Page(<<>>, {Pdf}, {<<"60000">>}))
    @@ ("https://www.mohfw.gov.in/etc/passwd.pdf" :>
        Page(<<>>, {Pdf}, {<<"60000">>, <<"20000">>, <<>>, <<"n/a">>}))

\* every kind of answer on the seed itself and on one page behind it
WebKinds ==
    ("https://mohfw.gov.in" :>
        Page(<<"/x/report.pdf", "/y/report.pdf", "/page.pdf", "/view">>,
             {Html, Pdf, <<"Application/PDF">>, <<>>, <<"image/png">>},
             {<<"60000">>, <<>>}))
    @@ ("https://mohfw.gov.in/x/report.pdf" :>
        Page(<<>>, {Pdf}, {<<"60000">>}))
    @@ ("https://mohfw.gov.in/y/report.pdf" :>
        Page(<<>>, {<<"application/octet-stream">>}, {<<"70000">>}))
    @@ ("https://mohfw.gov.in/page.pdf" :>
        Page(<<"/from-page">>, {Html}, {<<"20000">>, <<"60000">>}))
    @@ ("https://mohfw.gov.in/view" :>
        Page(<<"/x/report.pdf", "/">>, {Html, <<>>}, {<<"60000">>}))
    @@ ("https://mohfw.gov.in/" :>
        Page(<<>>, {Pdf, Html}, {<<"60000">>}))

\* documents whose names hold characters that are not kept in a file name
WebNames ==
    ("https://mohfw.gov.in" :>
        Page(<<"/docs/Annual Report (2021)+v_1-2.PDF?dl=1#page=2",
               "/download/Gazette%2FNotice", "/files/.pdf">>,
             {Html}, {<<>>}))
    @@ ("https://mohfw.gov.in/docs/Annual Report (2021)+v_1-2.PDF?dl=1" :>
        Page(<<>>, {Pdf}, {<<"60000">>}))
    @@ ("https://mohfw.gov.in/download/Gazette%2FNotice" :>
        Page(<<>>, {Pdf}, {<<"60000">>}))
    @@ ("https://mohfw.gov.in/files/.pdf" :>
        Page(<<>>, {<<>>}, {<<"60000">>}))

PageUrl(i) == "https://mohfw.gov.in/p" \o ToString(i)

FileUrl(i) == "https://mohfw.gov.in/f" \o ToString(i) \o ".pdf"

\* a chain of MaxPages pages, each linking forth, back and to one document;
\* the seed also links to a host whose name merely ends in the domain's
WebChain ==
    [u \in {seed_url} \cup {PageUrl(i) : i \in 1..MaxPages}
           \cup {FileUrl(i) : i \in 1..MaxPages} |->
        IF u = seed_url
        THEN Page(<<"/p1", "https://evilmohfw.gov.in/x.pdf">>, {Html}, {<<>>})
        ELSE IF \E i \in 1..MaxPages : u = PageUrl(i)
        THEN LET i == CHOOSE j \in 1..MaxPages : u = PageUrl(j)
             IN  Page(<<"p" \o ToString(i + 1), "/p" \o ToString(i - 1),
                        "f" \o ToString(i) \o ".pdf", "#top">>,
                      {Html}, {<<>>})
        ELSE Page(<<>>, {Pdf}, {<<"60000">>, <<"20000">>})]

Webs == {WebScenario, WebLinks, WebKinds, WebChain, WebNames}

PageOf(w, u) == IF u \in DOMAIN w THEN w[u] ELSE DefaultPage

(***************************************************************************)
(* What the string functions give on the URLs, hrefs and headers of the    *)
(* webs.  Each table holds the values of the operator it names, computed   *)
(* once; the actions look the values up.                                   *)
(***************************************************************************)

\* the pages that carry links and their hrefs, as <<base URL, href>>
LinkPairs ==
    UNION {UNION {{<<u, w[u].hrefs[i]>> : i \in DOMAIN w[u].hrefs} :
                    u \in DOMAIN w} : w \in Webs}

\* lines 163-167 for one anchor: urljoin or urlparse raise, or give full_url
Link(base, href) ==
    IF ParseRaises(href) \/ ParseRaises(urljoin(base, href))
    THEN [raises |-> TRUE, full_url |-> ""]
    ELSE [raises |-> FALSE, full_url |-> RemoveFragment(urljoin(base, href))]

LinkOf == [p \in LinkPairs |-> Link(p[1], p[2])]

\* every URL a crawl of one of the webs can meet
AllUrls ==
    {seed_url} \cup UNION {DOMAIN w : w \in Webs}
               \cup {LinkOf[p].full_url : p \in {q \in LinkPairs :
                                                    ~LinkOf[q].raises}}

\* the header values the webs send
AllContentTypes == UNION {UNION {w[u].ctypes : u \in DOMAIN w} : w \in Webs}

AllContentLengths == UNION {UNION {w[u].clens : u \in DOMAIN w} : w \in Webs}

(***************************************************************************)
(* State                                                                   *)
(***************************************************************************)

VARIABLES
    web,              \* the web being crawled (fixed during a crawl)
    queue,            \* self.queue: deque of URLs
    visited,          \* self.visited: set of URLs
    pages_visited,    \* self.pages_visited
    pdfs_downloaded,  \* self.pdfs_downloaded
    total_size_bytes, \* self.total_size_bytes
    disk,             \* the files under download_dir: path -> content
    pc,               \* position of crawl(): "loop", "get", "process", "done"
    url,              \* crawl's local url, "" before the first dequeue
    response,         \* <<>> for None, <<r>> for the response r
    branch,           \* the branch of the content-type test taken for url
    attempt,          \* get_response's loop variable
    gets,             \* requests.get calls made by the current get_response
    backoffs,         \* time.sleep(2) calls made by the current get_response
    polite_delays,    \* time.sleep(1) calls made so far
    dequeued,         \* the URLs of the "Visiting:" log lines, in order
    depth,            \* history: link distance from the seed at which each
                      \* URL was first appended to the queue
    errors            \* the error exits taken so far: <<kind, url>>

vars == <<web, queue, visited, pages_visited, pdfs_downloaded,
          total_size_bytes, disk, pc, url, response, branch, attempt, gets,
          backoffs, polite_delays, dequeued, depth, errors>>

InQueue(q, u) == \E i \in 1..Len(q) : q[i] = u

QueueSet == {queue[i] : i \in 1..Len(queue)}

Init ==
    /\ web \in Webs
    /\ queue = <<seed_url>>
    /\ visited = {}
    /\ pages_visited = 0
    /\ pdfs_downloaded = 0
    /\ total_size_bytes = 0
    /\ disk = <<>>
    /\ pc = "loop"
    /\ url = ""
    /\ response = <<>>
    /\ branch = "none"
    /\ attempt = 0
    /\ gets = 0
    /\ backoffs = 0
    /\ polite_delays = 0
    /\ dequeued = <<>>
    /\ depth = (seed_url :> 0)
    /\ errors = {}

(***************************************************************************)
(* is_valid_url                                                            *)
(***************************************************************************)

\* parsed.netloc.endswith("mohfw.gov.in")
NetlocInDomain(u) == EndsWith(urlparse(u, "").netloc, "mohfw.gov.in")

NetlocInDomainOf == [u \in AllUrls |-> NetlocInDomain(u)]

is_valid_url(u, vis) ==
    /\ NetlocInDomainOf[u]
    /\ u \notin vis

(***************************************************************************)
(* get_response: one action per iteration of its retry loop                *)
(***************************************************************************)

\* the responses the server of u can give
Responses(u) ==
    LET p == PageOf(web, u)
    IN  {[content_type |-> ct, content_length |-> cl, hrefs |-> p.hrefs] :
            ct \in p.ctypes, cl \in p.clens}

\* requests.get returns and raise_for_status passes: return response
GetSucceeds ==
    /\ pc = "get"
    /\ attempt < max_retries
    /\ \E r \in Responses(url) : response' = <<r>>
    /\ gets' = gets + 1
    /\ pc' = "process"
    /\ UNCHANGED <<branch, web, depth,
                   queue, visited, pages_visited, pdfs_downloaded,
                   total_size_bytes, disk, url, attempt, backoffs,
                   polite_delays, dequeued, errors>>

\* requests.RequestException: log a warning, sleep(2), next iteration
GetFails ==
    /\ pc = "get"
    /\ attempt < max_retries
    /\ gets' = gets + 1
    /\ backoffs' = backoffs + 1
    /\ attempt' = attempt + 1
    /\ UNCHANGED <<branch, web, depth,
                   queue, visited, pages_visited, pdfs_downloaded,
                   total_size_bytes, disk, pc, url, response, polite_delays,
                   dequeued, errors>>

\* a plausible slip: the URL whose fetch failed is put back in the queue
GiveUp_Requeue ==
    /\ pc = "get"
    /\ attempt >= max_retries
    /\ response' = <<>>
    /\ errors' = errors \cup {<<"fetch", url>>}
    /\ queue' = Append(queue, url)
    /\ pc' = "loop"
    /\ UNCHANGED <<branch, web, depth,
                   visited, pages_visited, pdfs_downloaded,
                   total_size_bytes, disk, url, attempt, gets, backoffs,
                   polite_delays, dequeued>>

\* the loop is exhausted: log the error, return None; crawl continues
GiveUp ==
    /\ pc = "get"
    /\ attempt >= max_retries
    /\ response' = <<>>
    /\ errors' = errors \cup {<<"fetch", url>>}
    /\ pc' = "loop"
    /\ UNCHANGED <<branch, web, depth,
                   queue, visited, pages_visited, pdfs_downloaded,
                   total_size_bytes, disk, url, attempt, gets, backoffs,
                   polite_delays, dequeued>>

(***************************************************************************)
(* save_pdf                                                                *)
(***************************************************************************)

\* a plausible slip: the file name is used as it comes from the URL
Clean_Keep(s) == s

RECURSIVE Clean(_)
\* "".join(c for c in filename if c.isalnum() or c in (' ', '.', '_', '-'))
Clean(s) ==
    IF s = "" THEN ""
    ELSE IF IsAlnum(Head(s)) \/ Head(s) \in {" ", ".", "_", "-"}
         THEN Head(s) \o Clean(Tail(s))
    ELSE Clean(Tail(s))

\* if not filename or filename.endswith('/'): document_<time>.pdf
OrSynthesized(filename, ts) ==
    IF filename = "" \/ EndsWith(filename, "/")
    THEN "document_" \o ToString(ts) \o ".pdf" ELSE filename

\* if not filename.lower().endswith('.pdf'): filename += ".pdf"
WithPdfSuffix(filename) ==
    IF ~EndsWith(Lower(filename), ".pdf") THEN filename \o ".pdf"
    ELSE filename

\* the file name save_pdf derives for u when time.time() returns ts
FileName(u, ts) ==
    Clean(WithPdfSuffix(OrSynthesized(basename(urlparse(u, "").path), ts)))

FileNameOf == [u \in AllUrls, ts \in Timestamps |-> FileName(u, ts)]

\* os.path.join(self.download_dir, filename)
FilePath(filename) == download_dir \o "/" \o filename

\* the file at path now has this content (open(..., 'w') truncates)
Write(d, path, content) == (path :> content) @@ d

\* the ways the two writes of save_pdf can go
IoOutcomes == {"ok", "pdf_open", "pdf_write", "json_open", "json_write"}

PdfFile(u, complete) == [kind |-> "pdf", complete |-> complete, url |-> u]

Sidecar(u, filename, n, complete) ==
    [kind |-> "json", complete |-> complete, source_authority |-> "MoHFW",
     tier |-> "Tier1", download_url |-> u, file_name |-> filename,
     file_size_kb |-> file_size_kb(n)]

\* int(response.headers.get('content-length', 0)) raises ValueError
LengthRaises(header) == header # <<>> /\ IntRaises(header[1])

LengthRaisesOf == [h \in AllContentLengths |-> LengthRaises(h)]

\* a plausible slip: a response without the header is taken to be large
DeclaredLength_Unknown(header) ==
    IF header = <<>> THEN pdf_min_size ELSE int(header[1])

\* int(response.headers.get('content-length', 0)) when it does not raise
DeclaredLength(header) == IF header = <<>> THEN 0 ELSE int(header[1])

DeclaredLengthOf ==
    [h \in AllContentLengths |->
        IF LengthRaises(h) THEN 0 ELSE DeclaredLength(h)]

\* a plausible slip: a document of exactly the minimum size is skipped
TooSmall_Inclusive(content_length) == content_length <= pdf_min_size

\* a plausible slip: the kilobyte is taken as 1000 bytes
TooSmall_Kilo(content_length) == content_length < 50 * 1000

\* a plausible slip: the size test is left out
TooSmall_Never(content_length) == FALSE

\* the size test of save_pdf: TRUE when the document is skipped
TooSmall(content_length) == content_length < pdf_min_size

\* the result of save_pdf: the disk, the two counters, the error exits
Outcome(d, pdfs, bytes, errs) ==
    [disk |-> d, pdfs |-> pdfs, bytes |-> bytes, errors |-> errs]

\* the two writes of save_pdf and the counting between them (lines 82-102)
\* when they go as io says; an exception is caught and logged (106-107)
Archive(u, io, filename, content_length, d, pdfs, bytes, errs) ==
    IF io = "pdf_open"
    THEN Outcome(d, pdfs, bytes, errs \cup {<<"save", u>>})
    ELSE IF io = "pdf_write"
    THEN Outcome(Write(d, FilePath(filename), PdfFile(u, FALSE)),
                 pdfs, bytes, errs \cup {<<"save", u>>})
    ELSE IF io = "json_open"
    THEN Outcome(Write(d, FilePath(filename), PdfFile(u, TRUE)),
                 pdfs + 1, bytes + content_length,
                 errs \cup {<<"save", u>>})
    ELSE IF io = "json_write"
    THEN Outcome(Write(Write(d, FilePath(filename), PdfFile(u, TRUE)),
                       FilePath(filename) \o ".json",
                       Sidecar(u, filename, content_length, FALSE)),
                 pdfs + 1, bytes + content_length,
                 errs \cup {<<"save", u>>})
    ELSE Outcome(Write(Write(d, FilePath(filename), PdfFile(u, TRUE)),
                       FilePath(filename) \o ".json",
                       Sidecar(u, filename, content_length, TRUE)),
                 pdfs + 1, bytes + content_length, errs)

\* save_pdf(url, response) when the writes go as io says and time.time()
\* returns ts
save_pdf(u, r, io, ts, d, pdfs, bytes, errs) ==
    IF LengthRaisesOf[r.content_length]
    THEN Outcome(d, pdfs, bytes, errs \cup {<<"save", u>>})
    ELSE IF TooSmall(DeclaredLengthOf[r.content_length])
    THEN Outcome(d, pdfs, bytes, errs)
    ELSE Archive(u, io, FileNameOf[u, ts], DeclaredLengthOf[r.content_length],
                 d, pdfs, bytes, errs)

(***************************************************************************)
(* crawl                                                                   *)
(***************************************************************************)

\* a plausible slip: the membership test against the live queue is left out
Enqueue_NoQueueTest(q, full_url, vis) ==
    IF is_valid_url(full_url, vis) /\ full_url \notin vis
    THEN Append(q, full_url) ELSE q

\* a plausible slip: appendleft instead of append (the frontier is a stack)
Enqueue_AppendLeft(q, full_url, vis) ==
    IF is_valid_url(full_url, vis) /\ full_url \notin vis
                                   /\ ~InQueue(q, full_url)
    THEN <<full_url>> \o q ELSE q

\* the inner test of the link loop, and self.queue.append(full_url)
Enqueue(q, full_url, vis) ==
    IF is_valid_url(full_url, vis) /\ full_url \notin vis
                                   /\ ~InQueue(q, full_url)
    THEN Append(q, full_url) ELSE q

RECURSIVE ExtractLinks(_, _, _, _)
\* the loop over soup.find_all('a', href=True): the queue it leaves, and
\* whether urljoin / urlparse raised (which ends the loop at that anchor)
ExtractLinks(base, hrefs, q, vis) ==
    IF Len(hrefs) = 0 THEN [queue |-> q, raised |-> FALSE]
    ELSE IF LinkOf[<<base, Head(hrefs)>>].raises
    THEN [queue |-> q, raised |-> TRUE]
    ELSE ExtractLinks(base, Tail(hrefs),
                      Enqueue(q, LinkOf[<<base, Head(hrefs)>>].full_url, vis),
                      vis)

\* history: the URLs of q met for the first time are recorded at distance n
Discovered(dist, q, n) ==
    [u \in DOMAIN dist \cup Range(q) |->
        IF u \in DOMAIN dist THEN dist[u] ELSE n]

\* response.headers.get('Content-Type', '').lower()
ContentType(header) == IF header = <<>> THEN "" ELSE Lower(header[1])

\* a plausible slip: the header is tested first, the URL suffix only when
\* the header names neither type
Classify_HeaderFirst(content_type, u) ==
    IF Contains(content_type, "application/pdf") THEN "pdf"
    ELSE IF Contains(content_type, "text/html") THEN "html"
    ELSE IF EndsWith(Lower(u), ".pdf") THEN "pdf"
    ELSE "other"

\* a plausible slip: whatever is not a PDF is parsed as a page
Classify_HtmlDefault(content_type, u) ==
    IF Contains(content_type, "application/pdf") \/ EndsWith(Lower(u), ".pdf")
    THEN "pdf"
    ELSE "html"

\* the branch crawl takes for a response
Classify(content_type, u) ==
    IF Contains(content_type, "application/pdf") \/ EndsWith(Lower(u), ".pdf")
    THEN "pdf"
    ELSE IF Contains(content_type, "text/html") THEN "html"
    ELSE "other"

\* a plausible slip: the dequeued URL is not recorded as visited
MarkVisited_Forget(vis, u) == vis

\* a plausible slip: visited is assigned instead of extended
MarkVisited_Assign(vis, u) == {u}

\* self.visited.add(url)
MarkVisited(vis, u) == vis \cup {u}

BranchOf ==
    [h \in AllContentTypes, u \in AllUrls |-> Classify(ContentType(h), u)]

\* a plausible slip: the polite delay is left out
Sleep_Skipped(n) == n

\* time.sleep(1): one more polite delay has been made
Sleep(n) == n + 1

\* while self.queue: popleft, mark visited, count, polite delay
Dequeue ==
    /\ pc = "loop"
    /\ queue # <<>>
    /\ queue' = Tail(queue)
    /\ url' = Head(queue)
    /\ IF Head(queue) \in visited
       THEN UNCHANGED <<visited, pages_visited, polite_delays, dequeued, pc,
                        attempt, gets, backoffs, response, branch>>
       ELSE /\ visited' = MarkVisited(visited, Head(queue))
            /\ pages_visited' = pages_visited + 1
            /\ polite_delays' = Sleep(polite_delays)
            /\ dequeued' = Append(dequeued, Head(queue))
            /\ pc' = "get"
            /\ attempt' = 0
            /\ gets' = 0
            /\ backoffs' = 0
            /\ response' = <<>>
            /\ branch' = "none"
    /\ UNCHANGED <<web, depth, pdfs_downloaded, total_size_bytes, disk,
                   errors>>

\* the PDF branch: self.save_pdf(url, response)
ProcessPdf ==
    /\ pc = "process"
    /\ BranchOf[response[1].content_type, url] = "pdf"
    /\ branch' = "pdf"
    /\ \E io \in IoOutcomes, ts \in Timestamps :
          LET s == save_pdf(url, response[1], io, ts, disk, pdfs_downloaded,
                            total_size_bytes, errors)
          IN  /\ disk' = s.disk
              /\ pdfs_downloaded' = s.pdfs
              /\ total_size_bytes' = s.bytes
              /\ errors' = s.errors
    /\ pc' = "loop"
    /\ UNCHANGED <<web, depth, queue, visited, pages_visited, url, response,
                   attempt, gets, backoffs, polite_delays, dequeued>>

\* the HTML branch: read the body, then enqueue the links of its anchors
ProcessHtml ==
    /\ pc = "process"
    /\ BranchOf[response[1].content_type, url] = "html"
    /\ branch' = "html"
    /\ \E body_read \in BOOLEAN :
          IF ~body_read
          THEN /\ errors' = errors \cup {<<"body", url>>}
               /\ queue' = queue
               /\ depth' = depth
          ELSE LET x == ExtractLinks(url, response[1].hrefs, queue, visited)
               IN  /\ queue' = x.queue
                   /\ depth' = Discovered(depth, x.queue, depth[url] + 1)
                   /\ errors' = IF x.raised
                                THEN errors \cup {<<"process", url>>}
                                ELSE errors
    /\ pc' = "loop"
    /\ UNCHANGED <<web, visited, pages_visited, pdfs_downloaded,
                   total_size_bytes, disk, url, response, attempt, gets,
                   backoffs, polite_delays, dequeued>>

\* any other content type: log "Skipping content type"
ProcessOther ==
    /\ pc = "process"
    /\ BranchOf[response[1].content_type, url] = "other"
    /\ branch' = "other"
    /\ pc' = "loop"
    /\ UNCHANGED <<web, depth, queue, visited, pages_visited,
                   pdfs_downloaded, total_size_bytes, disk, url, response,
                   attempt, gets, backoffs, polite_delays, dequeued, errors>>

\* the queue is empty: the while loop ends, "Crawl Complete."
Finish ==
    /\ pc = "loop"
    /\ queue = <<>>
    /\ pc' = "done"
    /\ UNCHANGED <<branch, web, depth,
                   queue, visited, pages_visited, pdfs_downloaded,
                   total_size_bytes, disk, url, response, attempt, gets,
                   backoffs, polite_delays, dequeued, errors>>

Next ==
    \/ Dequeue
    \/ GetSucceeds
    \/ GetFails
    \/ GiveUp
    \/ ProcessPdf
    \/ ProcessHtml
    \/ ProcessOther
    \/ Finish

Spec == Init /\ [][Next]_vars

\* the crawl is one sequential thread: a step that can be taken is taken
FairSpec == Spec /\ WF_vars(Next)

TypeOK ==
    /\ pc \in {"loop", "get", "process", "done"}
    /\ attempt \in 0..max_retries
    /\ Len(response) \in {0, 1}
    /\ pages_visited \in Nat /\ pdfs_downloaded \in Nat

(***************************************************************************)
(* Properties                                                              *)
(***************************************************************************)

NoDup(q) == \A i, j \in 1..Len(q) : q[i] = q[j] => i = j

\* the host of a URL: the netloc without user information and port
Host(u) ==
    Lower(Before(From(urlparse(u, "").netloc,
                      RFind(urlparse(u, "").netloc, {"@"}) + 1), ":"))

\* the host is the target domain or one of its subdomains
InTargetDomain(u) ==
    Host(u) = "mohfw.gov.in" \/ EndsWith(Host(u), ".mohfw.gov.in")

\* C1: in every reachable state the queue holds no visited URL and holds no
\* URL twice.
C1_QueueDisjointFromVisited ==
    /\ QueueSet \cap visited = {}
    /\ NoDup(queue)

\* C1 witness: the seed page of WebLinks, which links to /a three times and
\* to itself, has been processed and /a waits in the queue.
C1_Witness ==
    /\ web = WebLinks
    /\ seed_url \in visited
    /\ pc = "loop"
    /\ InQueue(queue, "https://mohfw.gov.in/a")
    /\ Len(queue) >= 2

\* C2: over a whole crawl every URL is dequeued (fetched) at most once,
\* a URL in visited is never appended to the queue, and visited only grows.
C2_DequeuedAtMostOnce ==
    [][/\ NoDup(dequeued')
       /\ visited \subseteq visited'
       /\ \A u \in QueueSet' \ QueueSet : u \notin visited']_vars

\* C2 witness: page /a of WebLinks, which links back to the visited seed and
\* to itself, has been processed after the seed.
C2_Witness ==
    /\ web = WebLinks
    /\ Len(dequeued) >= 3
    /\ dequeued[1] = seed_url
    /\ dequeued[2] = "https://mohfw.gov.in/a"
    /\ <<"body", "https://mohfw.gov.in/a">> \notin errors

\* C3 (as claimed): every URL in the queue has a host that is the target
\* domain or a subdomain of it.
C3_QueueOnlyTargetDomain ==
    \A u \in QueueSet : InTargetDomain(u)

\* C4: get_response makes at most 3 GETs; a success at attempt k returns at
\* once (k GETs, a backoff after each of the k-1 failures, no later GET);
\* when every attempt fails it makes exactly 3 GETs, each followed by the
\* backoff, and returns None.
C4_RetryBound ==
    /\ [](/\ gets <= 3
          /\ pc = "get" => backoffs = gets
          /\ pc = "process" =>
                response # <<>> /\ gets >= 1 /\ backoffs = gets - 1
          /\ (pc \in {"loop", "done"} /\ response = <<>> /\ dequeued # <<>>)
                => gets = 3 /\ backoffs >= 2)
    /\ [][pc = "process" => gets' = gets]_vars
    /\ [][(pc = "get" /\ pc' = "loop") => (gets = 3 /\ response' = <<>>)]_vars

\* C4 witness: a fetch has just failed three times and returned None.
C4_Witness ==
    /\ pc = "loop"
    /\ response = <<>>
    /\ gets = 3
    /\ backoffs = 3
    /\ <<"fetch", url>> \in errors

\* get_response has returned None for the current URL
FetchExhausted == pc = "loop" /\ <<"fetch", url>> \in errors

\* C5: when the fetch of the dequeued URL exhausts its retries, the URL
\* stays visited and is not queued again, nothing is enqueued or written,
\* the counters keep their values and the loop goes on: every URL that is
\* then in the queue is eventually dequeued (a URL leaves the queue only by
\* being dequeued, and the queue is eventually drained).
C5_FailedFetchIsDropped ==
    /\ [][(pc = "get" /\ pc' # "get" /\ response' = <<>>) =>
            /\ pc' = "loop"
            /\ url \in visited'
            /\ queue' = queue
            /\ ~InQueue(queue', url)
            /\ disk' = disk
            /\ pdfs_downloaded' = pdfs_downloaded
            /\ total_size_bytes' = total_size_bytes]_vars
    /\ [][\A u \in QueueSet : u \in QueueSet' \/ u \in Range(dequeued')]_vars
    /\ FetchExhausted ~> (queue = <<>>)

\* C5 witness: the fetch of the seed of WebLinks' page /a was given up while
\* other URLs were waiting in the queue.
C5_Witness ==
    /\ web = WebLinks
    /\ FetchExhausted
    /\ url = "https://mohfw.gov.in/a"
    /\ Len(queue) >= 2

\* the documents and sidecars on the disk
PdfPaths == {p \in DOMAIN disk : disk[p].kind = "pdf"}

SidecarPaths == {p \in DOMAIN disk : disk[p].kind = "json"}

\* a step that runs save_pdf on a response whose content-length is absent
\* or a numeral
InSavePdf ==
    /\ pc = "process"
    /\ branch' = "pdf"
    /\ ~LengthRaises(response[1].content_length)

\* C6: save_pdf archives a PDF iff its declared length is at least 51200:
\* below, it changes nothing; from 51200 on, without an I/O failure, it
\* writes the PDF and its sidecar, adds 1 to pdfs_downloaded and the
\* declared length to total_size_bytes.
C6_SizeFilter ==
    [][InSavePdf =>
        LET n == DeclaredLength(response[1].content_length)
        IN  /\ n < 51200 =>
                /\ disk' = disk
                /\ pdfs_downloaded' = pdfs_downloaded
                /\ total_size_bytes' = total_size_bytes
                /\ errors' = errors
            /\ (n >= 51200 /\ errors' = errors) =>
                /\ pdfs_downloaded' = pdfs_downloaded + 1
                /\ total_size_bytes' = total_size_bytes + n
                /\ \E f \in DOMAIN disk' :
                      /\ disk'[f].kind = "pdf"
                      /\ disk'[f].complete
                      /\ disk'[f].url = url
                      /\ (f \o ".json") \in DOMAIN disk'
                      /\ disk'[f \o ".json"].kind = "json"
                      /\ disk'[f \o ".json"].complete
                      /\ disk'[f \o ".json"].download_url = url]_vars

\* C6 witness: the only document archived so far is /b.PDF of WebLinks, which
\* declares exactly 51200 bytes.
C6_Witness ==
    /\ web = WebLinks
    /\ url = "https://mohfw.gov.in/b.PDF"
    /\ pc = "loop"
    /\ pdfs_downloaded = 1
    /\ total_size_bytes = 51200
    /\ Cardinality(SidecarPaths) = 1

\* a Content-Type header that is absent or names no specific type
Generic(content_type) ==
    content_type = "" \/ Contains(content_type, "application/octet-stream")

UrlEndsInPdf == EndsWith(Lower(url), ".pdf")

\* C7 (as claimed): the declared Content-Type decides the branch, and the
\* '.pdf' suffix of the URL only when the header is absent or generic.
C7_HeaderDecides ==
    (pc = "loop" /\ branch # "none") =>
        LET ct == ContentType(response[1].content_type)
        IN  /\ Contains(ct, "application/pdf") => branch = "pdf"
            /\ Contains(ct, "text/html") => branch = "html"
            /\ Generic(ct) => (branch = "pdf" <=> UrlEndsInPdf)

\* C7 (amended): a response is handled as PDF (passed to save_pdf, no link
\* extracted) exactly when its Content-Type contains application/pdf or its
\* URL ends in '.pdf', whatever the header says; otherwise as an HTML page
\* (links extracted, nothing archived) exactly when the header contains
\* text/html; otherwise it is skipped.
C7_SuffixOverridesHeader ==
    /\ []((pc = "loop" /\ branch # "none") =>
            LET ct == ContentType(response[1].content_type)
                isPdf == Contains(ct, "application/pdf") \/ UrlEndsInPdf
            IN  /\ branch = "pdf" <=> isPdf
                /\ branch = "html" <=> (~isPdf /\ Contains(ct, "text/html"))
                /\ branch = "other" <=>
                      (~isPdf /\ ~Contains(ct, "text/html")))
    /\ [][(pc = "process" /\ branch' = "pdf") => queue' = queue]_vars
    /\ [][(pc = "process" /\ branch' = "html") =>
            /\ disk' = disk
            /\ pdfs_downloaded' = pdfs_downloaded
            /\ total_size_bytes' = total_size_bytes
            /\ (errors' = errors =>
                  queue' = ExtractLinks(url, response[1].hrefs, queue,
                                        visited).queue)]_vars

\* C7 witness: /page.pdf of WebKinds, which declares text/html and carries a
\* link, was archived as a PDF and its link was not enqueued.
C7_Witness ==
    /\ web = WebKinds
    /\ url = "https://mohfw.gov.in/page.pdf"
    /\ pc = "loop"
    /\ branch = "pdf"
    /\ ContentType(response[1].content_type) = "text/html; charset=utf-8"
    /\ \E f \in PdfPaths : disk[f].url = url /\ disk[f].complete

\* C8 (as claimed): a failure inside save_pdf stays inside it, the crawl
\* goes on, and both counters keep the values they had before the call.
C8_FailedSaveCountsNothing ==
    [][(pc = "process" /\ <<"save", url>> \in errors') =>
          /\ pc' = "loop"
          /\ pdfs_downloaded' = pdfs_downloaded
          /\ total_size_bytes' = total_size_bytes]_vars

\* the scenario has run to its end and every fetch and write succeeded
ScenarioDone == web = WebScenario /\ pc = "done" /\ errors = {}

\* C9 (as claimed): after the scenario one PDF and one sidecar are on disk,
\* pdfs_downloaded = 1, pages_visited = 1, and the off-domain link is never
\* in the queue.
C9_ScenarioOnePage ==
    /\ web = WebScenario =>
          ~InQueue(queue, "https://evil.example.com/a.pdf")
    /\ ScenarioDone =>
          /\ Cardinality(PdfPaths) = 1
          /\ Cardinality(SidecarPaths) = 1
          /\ pdfs_downloaded = 1
          /\ pages_visited = 1

\* C9 (amended): as claimed, but pages_visited = 3: the seed page and the
\* two PDF URLs are each dequeued and counted.
C9_ScenarioThreeVisits ==
    /\ web = WebScenario =>
          ~InQueue(queue, "https://evil.example.com/a.pdf")
    /\ ScenarioDone =>
          /\ Cardinality(PdfPaths) = 1
          /\ Cardinality(SidecarPaths) = 1
          /\ \E f \in PdfPaths :
                /\ disk[f].url = "https://mohfw.gov.in/report.pdf"
                /\ (f \o ".json") \in SidecarPaths
          /\ pdfs_downloaded = 1
          /\ pages_visited = 3

\* C9 witness: the scenario has run to its end without a failure.
C9_Witness == ScenarioDone /\ pdfs_downloaded = 1

\* the links of page u of web w that resolve to a URL
Successors(w, u) ==
    IF u \in DOMAIN w
    THEN {LinkOf[<<u, w[u].hrefs[i]>>].full_url :
             i \in {j \in DOMAIN w[u].hrefs :
                       ~LinkOf[<<u, w[u].hrefs[j]>>].raises}}
    ELSE {}

RECURSIVE Reach(_, _)
\* the URLs of the target domain reachable from the URLs in seen
Reach(w, seen) ==
    LET more == {v \in UNION {Successors(w, u) : u \in seen} :
                    InTargetDomain(v)}
    IN  IF more \subseteq seen THEN seen ELSE Reach(w, seen \cup more)

\* the in-domain URLs reachable from the seed, per web
ReachableInDomain == [w \in Webs |-> Reach(w, {seed_url})]

\* C10 (as claimed): with N in-domain URLs reachable from the seed, the
\* crawl terminates, dequeues at most N URLs, and stops exactly when a
\* dequeue attempt finds the queue empty.
C10_TerminatesWithinN ==
    /\ [](Len(dequeued) <= Cardinality(ReachableInDomain[web]))
    /\ [](pc = "done" => queue = <<>>)
    /\ [][(pc # "done" /\ pc' = "done") => (pc = "loop" /\ queue = <<>>)]_vars
    /\ <>(pc = "done")

IsPrefix(s, t) == Len(s) <= Len(t) /\ SubSeq(t, 1, Len(s)) = s

\* the URLs in the order in which they entered the queue
DiscoveryOrder == dequeued \o queue

\* C11: URLs are processed breadth first: the dequeued URLs have
\* non-decreasing depth (depth of the discovering page plus one, seed 0), no
\* URL is dequeued while a URL of smaller depth waits in the queue, and URLs
\* are dequeued in the order of their discovery (FIFO).
C11_BreadthFirst ==
    /\ [](\A i, j \in 1..Len(dequeued) :
            i <= j => depth[dequeued[i]] <= depth[dequeued[j]])
    /\ [][dequeued' # dequeued =>
            /\ url' = Head(queue)
            /\ \A u \in QueueSet : depth[url'] <= depth[u]]_vars
    /\ [][IsPrefix(DiscoveryOrder, DiscoveryOrder')]_vars
    /\ [](\A u \in QueueSet :
            /\ u \in DOMAIN depth
            /\ dequeued # <<>> =>
                  depth[u] \in {depth[dequeued[Len(dequeued)]],
                                depth[dequeued[Len(dequeued)]] + 1})

\* C11 witness: the crawl of WebLinks has dequeued URLs of depth 0, 1 and 2,
\* the two pages of depth 1 having each discovered a document of depth 2.
C11_Witness ==
    /\ web = WebLinks
    /\ pc = "done"
    /\ Len(dequeued) >= 6
    /\ depth[dequeued[1]] = 0
    /\ depth[dequeued[2]] = 1
    /\ "https://mohfw.gov.in/b.PDF" \in DOMAIN depth
    /\ "https://www.mohfw.gov.in/etc/passwd.pdf" \in DOMAIN depth
    /\ depth["https://mohfw.gov.in/b.PDF"] = 2
    /\ depth["https://www.mohfw.gov.in/etc/passwd.pdf"] = 2
    /\ depth[dequeued[Len(dequeued)]] = 2

\* the fragment of each URL, and each URL without its fragment
FragmentOf == [u \in AllUrls |-> urlparse(u, "").fragment]

StrippedOf ==
    [u \in AllUrls |-> geturl([urlparse(u, "") EXCEPT !.fragment = ""])]

\* the anchors of the page being processed whose href is only a fragment
FragmentOnlyHrefs ==
    {i \in DOMAIN response[1].hrefs :
        StartsWith(response[1].hrefs[i], "#")}

\* C12: every URL that enters the queue has an empty fragment; URLs that
\* differ only by their fragment give at most one queue entry in the whole
\* crawl; a fragment-only href on page u resolves to u and enqueues nothing.
C12_FragmentStripped ==
    /\ [](\A u \in Range(DiscoveryOrder) : FragmentOf[u] = "")
    /\ [](\A i, j \in 1..Len(DiscoveryOrder) :
            StrippedOf[DiscoveryOrder[i]] = StrippedOf[DiscoveryOrder[j]]
                => i = j)
    /\ [][(pc = "process" /\ branch' = "html") =>
            \A i \in FragmentOnlyHrefs :
                /\ ~LinkOf[<<url, response[1].hrefs[i]>>].raises
                /\ LinkOf[<<url, response[1].hrefs[i]>>].full_url = url
                /\ ~InQueue(queue', url)]_vars

\* C12 witness: the seed of WebLinks (links /a#sec2, #top, /a) and then its
\* page /a (links "", #x, /a) have been processed: /a entered the queue once.
C12_Witness ==
    /\ web = WebLinks
    /\ pc = "loop"
    /\ url = "https://mohfw.gov.in/a"
    /\ branch = "html"
    /\ <<"body", url>> \notin errors
    /\ Cardinality({i \in 1..Len(DiscoveryOrder) :
                        DiscoveryOrder[i] = "https://mohfw.gov.in/a"}) = 1
    /\ InQueue(queue, "https://mohfw.gov.in/b.PDF")

\* the characters a file name may consist of
NameChars ==
    Range(Upper) \cup Range(Lowers) \cup Digits \cup {" ", ".", "_", "-"}

\* a file name made of the allowed characters only, not empty, ending in
\* '.pdf' in any case
SafeName(n) ==
    /\ n # ""
    /\ AllIn(n, NameChars)
    /\ EndsWith(Lower(n), ".pdf")

SafeNameOf == [u \in AllUrls, ts \in Timestamps |-> SafeName(FileNameOf[u, ts])]

\* the name derived from the path segment "../../etc/passwd.pdf" itself
TraversalName == Clean(WithPdfSuffix("../../etc/passwd.pdf"))

\* C13: the file name save_pdf derives for an archived URL is not empty,
\* consists only of letters, digits, space, dot, underscore and hyphen, and
\* ends in '.pdf' in any case, so every file written lies directly in the
\* download directory; the segment "../../etc/passwd.pdf" gives such a name.
C13_SafeFileName ==
    /\ \A p \in DOMAIN disk :
          IF disk[p].kind = "pdf"
          THEN \E ts \in Timestamps :
                  /\ p = download_dir \o "/" \o FileNameOf[disk[p].url, ts]
                  /\ SafeNameOf[disk[p].url, ts]
          ELSE \E ts \in Timestamps :
                  /\ disk[p].file_name = FileNameOf[disk[p].download_url, ts]
                  /\ p = download_dir \o "/" \o disk[p].file_name \o ".json"
                  /\ SafeNameOf[disk[p].download_url, ts]
    /\ SafeName(TraversalName)
    /\ TraversalName = "....etcpasswd.pdf"

\* C13 witness: the three documents of WebNames, whose URLs hold spaces,
\* brackets, '+', '%' or no base name at all, have been archived.
C13_Witness ==
    /\ web = WebNames
    /\ pc = "done"
    /\ errors = {}
    /\ DOMAIN disk =
          {download_dir \o "/" \o n \o x :
              n \in {"Annual Report 2021v_1-2.PDF", "Gazette2FNotice.pdf",
                     ".pdf"},
              x \in {"", ".json"}}

\* the response being processed is neither HTML nor PDF by its header, and
\* its URL does not end in '.pdf'
NeitherHtmlNorPdf ==
    /\ pc = "process"
    /\ ~Contains(ContentType(response[1].content_type), "text/html")
    /\ ~Contains(ContentType(response[1].content_type), "application/pdf")
    /\ ~UrlEndsInPdf

\* C14: processing a response that is neither HTML nor PDF changes nothing
\* but the log: the queue, the files and the counters stay as they are.
C14_OtherTypeChangesNothing ==
    [][NeitherHtmlNorPdf =>
          /\ branch' = "other"
          /\ pc' = "loop"
          /\ queue' = queue
          /\ disk' = disk
          /\ pdfs_downloaded' = pdfs_downloaded
          /\ total_size_bytes' = total_size_bytes
          /\ visited' = visited
          /\ pages_visited' = pages_visited
          /\ errors' = errors]_vars

\* C14 witness: page /a of WebLinks, which carries links, was served as
\* image/png and skipped while other URLs waited in the queue.
C14_Witness ==
    /\ web = WebLinks
    /\ url = "https://mohfw.gov.in/a"
    /\ pc = "loop"
    /\ branch = "other"
    /\ response = <<[content_type |-> <<"image/png">>,
                     content_length |-> <<>>,
                     hrefs |-> WebLinks[url].hrefs]>>
    /\ queue # <<>>
    /\ ~InQueue(queue, "https://mohfw.gov.in/b.PDF")

\* C15: exactly one polite delay is made after every dequeue and before the
\* first fetch attempt for the dequeued URL, whatever becomes of the fetch;
\* every fetch attempt is for the URL dequeued last, so a polite delay lies
\* between the fetches of two different URLs.
C15_PoliteDelay ==
    /\ [](polite_delays = Len(dequeued))
    /\ [][(pc = "loop" /\ queue' # queue) =>
            /\ polite_delays' = polite_delays + 1
            /\ dequeued' = Append(dequeued, Head(queue))
            /\ pc' = "get"
            /\ gets' = 0]_vars
    /\ [][polite_delays' # polite_delays => queue' = Tail(queue)]_vars
    /\ [][gets' > gets =>
            /\ polite_delays' = polite_delays
            /\ dequeued # <<>>
            /\ url = dequeued[Len(dequeued)]
            /\ polite_delays = Len(dequeued)]_vars

\* C15 witness: three URLs of WebLinks have been dequeued, the fetch of the
\* second was given up, the third is answered with a PDF; three delays.
C15_Witness ==
    /\ web = WebLinks
    /\ pc = "process"
    /\ Len(dequeued) = 3
    /\ polite_delays = 3
    /\ <<"fetch", dequeued[2]>> \in errors
    /\ response[1].content_type = Pdf

\* the path of the document a sidecar path belongs to
DocumentOf(p) == Sub(p, 1, Len(p) - Len(".json"))

\* the files a step has written: those that are new or have new content
Written ==
    {p \in DOMAIN disk' : p \notin DOMAIN disk \/ disk'[p] # disk[p]}

\* C16 (as claimed): a sidecar is written only by a save_pdf that has
\* written the whole PDF of a document that passed the size filter, once per
\* archive; so every sidecar on disk has the fully written PDF of the same
\* base name next to it.
C16_SidecarNextToWholePdf ==
    /\ [][\A p \in Written :
            disk'[p].kind = "json" =>
                /\ pc = "process" /\ branch' = "pdf"
                /\ ~LengthRaises(response[1].content_length)
                /\ ~TooSmall(DeclaredLength(response[1].content_length))
                /\ disk'[p].download_url = url
                /\ DocumentOf(p) \in Written
                /\ disk'[DocumentOf(p)] = PdfFile(url, TRUE)
                /\ Cardinality({q \in Written : disk'[q].kind = "json"}) = 1
          ]_vars
    /\ [](\A p \in SidecarPaths :
            /\ DocumentOf(p) \in PdfPaths
            /\ disk[DocumentOf(p)].complete)

\* the step archives url under a name that holds the document of another URL
Overwrites(f) ==
    /\ pc = "process" /\ branch' = "pdf"
    /\ errors' = errors
    /\ f \in PdfPaths /\ disk[f].url # url /\ disk[f].complete
    /\ (f \o ".json") \in SidecarPaths
    /\ f \in Written

\* C17 (as claimed): an archive under a name already taken by another URL
\* overwrites it: one PDF and one sidecar stay under the name, the sidecar
\* names the second URL, pdfs_downloaded grows again; so the PDF files on
\* disk are at most as many as pdfs_downloaded.
C17_OverwriteKeepsOneFile ==
    /\ [][\A f \in PdfPaths :
            Overwrites(f) =>
                /\ DOMAIN disk' = DOMAIN disk
                /\ disk'[f] = PdfFile(url, TRUE)
                /\ disk'[f \o ".json"].kind = "json"
                /\ disk'[f \o ".json"].download_url = url
                /\ pdfs_downloaded' = pdfs_downloaded + 1
                /\ pdfs_downloaded >= 1
                /\ Cardinality(PdfPaths') < pdfs_downloaded']_vars
    /\ [](Cardinality(PdfPaths) <= pdfs_downloaded)

\* C18: whenever crawl is at the head of its loop, pages_visited is the
\* number of URLs in visited and the number of URLs dequeued so far: every
\* dequeued URL counts, whatever becomes of its fetch.
C18_PagesVisitedCountsDequeues ==
    /\ pc \in {"loop", "done"} =>
          /\ pages_visited = Cardinality(visited)
          /\ pages_visited = Len(dequeued)
    /\ visited = Range(dequeued)

\* C18 witness: three URLs of WebKinds have been dequeued: a page, a document
\* handled as PDF, and one whose fetch was given up.
C18_Witness ==
    /\ web = WebKinds
    /\ pc = "loop"
    /\ pages_visited = 3
    /\ Cardinality(PdfPaths) = 1
    /\ <<"fetch", url>> \in errors

\* C19: pdfs_downloaded never exceeds pages_visited, and total_size_bytes is
\* at least 51200 bytes for each counted PDF.
C19_CounterBounds ==
    /\ pdfs_downloaded <= pages_visited
    /\ total_size_bytes >= 51200 * pdfs_downloaded

\* C19 witness: /b.PDF of WebLinks, declaring exactly 51200 bytes, has been
\* counted after another document.
C19_Witness ==
    /\ web = WebLinks
    /\ url = "https://mohfw.gov.in/b.PDF"
    /\ pc = "loop"
    /\ pdfs_downloaded = 2
    /\ total_size_bytes = 60000 + 51200

\* C20: a PDF response without a content-length header has declared length
\* 0 and is never archived: no file is written, the counters are unchanged.
C20_NoLengthNoArchive ==
    [][(pc = "process" /\ branch' = "pdf"
                       /\ response[1].content_length = <<>>) =>
          /\ DeclaredLength(response[1].content_length) = 0
          /\ disk' = disk
          /\ pdfs_downloaded' = pdfs_downloaded
          /\ total_size_bytes' = total_size_bytes
          /\ errors' = errors
          /\ pc' = "loop"]_vars

\* C20 witness: /etc/passwd.pdf of WebLinks was answered as application/pdf
\* without a content-length and nothing was stored for it.
C20_Witness ==
    /\ web = WebLinks
    /\ url = "https://www.mohfw.gov.in/etc/passwd.pdf"
    /\ pc = "loop"
    /\ branch = "pdf"
    /\ response[1].content_length = <<>>
    /\ \A p \in DOMAIN disk :
          disk[p].kind = "pdf" => disk[p].url # url

====
